---- MODULE Spec2Model ----
(***************************************************************************)
(* Model of the partition health index and its cache:                      *)
(*   js_modules/dagit/packages/core/src/assets/AssetPartitions.tsx         *)
(* (AssetPartitions, loadPartitionHealthData, usePartitionHealthData).     *)
(*                                                                         *)
(*  Spec       the usePartitionHealthData hook under arbitrary renders     *)
(*             (changing key lists, freshness hint changes), with fetches  *)
(*             that succeed, fail or never complete.                       *)
(*  SpecFixed  the same hook while the caller keeps the same key list.     *)
(*  SpecLive   SpecFixed, every fetch completing successfully (fairness).  *)
(*  SpecIndex  loadPartitionHealthData and stateForKey as pure functions   *)
(*             over a bounded set of payloads.                             *)
(*  SpecQuery  stateForPartialKey and stateForSingleDimension as pure      *)
(*             functions over the well-formed payloads.                    *)
(*  SpecView   the AssetPartitions component: selections, state filters    *)
(*             and focus navigation over a resolved index.                 *)
(***************************************************************************)
EXTENDS Integers, Sequences, FiniteSets, TLC

VARIABLES
    assetKeys,                \* the key list of the last render (hook argument)
    assetLastMaterializedAt,  \* Props.assetLastMaterializedAt of the last render
    result,                   \* React state `result`: sequence of PartitionHealthData
    memoDeps,                 \* deps of the fetch useMemo at the last render: <<missingKeyJSON>>
    inflight,                 \* per asset key: client.query calls not yet settled
    started,                  \* per asset key: number of client.query calls made so far
    failed,                   \* per asset key: rejected run() calls, by what rejected
    returned,                 \* the value the hook returned at the last render
    payload,                  \* SpecIndex: the query response handed to the build
    loaded,                   \* SpecIndex: outcome of loadPartitionHealthData
    query,                    \* SpecIndex: the last stateForKey call and its outcome
    ranges,                   \* AssetPartitions: PartitionHealthDimensionRange[] in use
    stateFilters,             \* AssetPartitions: React state `stateFilters`
    params                    \* AssetPartitions: Props.params (AssetViewParams)

vars == <<assetKeys, assetLastMaterializedAt, result, memoDeps, inflight, started,
          failed, returned, payload, loaded, query, ranges, stateFilters, params>>

cacheVars == <<assetKeys, assetLastMaterializedAt, result, memoDeps, inflight, started,
               failed, returned>>

indexVars == <<payload, loaded, query>>

viewVars == <<ranges, stateFilters, params>>

----------------------------------------------------------------------------
(* Bounds *)

MaxAssetKeys == 2     \* longest key list passed to the hook
MaxFetches == 2       \* client.query calls per behaviour
MaxKeys == 2          \* longest partitionKeys list / counts list of a payload

----------------------------------------------------------------------------
(* Generic helpers *)

Range(s) == {s[i] : i \in DOMAIN s}

SeqsUpTo(S, n) == UNION {[1..m -> S] : m \in 0..n}

RECURSIVE SumOver(_, _)
SumOver(f, S) ==
    IF S = {} THEN 0
    ELSE LET e == CHOOSE e \in S : TRUE IN f[e] + SumOver(f, S \ {e})

MaxOf(S) == CHOOSE m \in S : \A n \in S : n <= m

----------------------------------------------------------------------------
(* PartitionState *)

SUCCESS == "SUCCESS"
MISSING == "MISSING"
SUCCESS_MISSING == "SUCCESS_MISSING"

PartitionState == {MISSING, SUCCESS_MISSING, SUCCESS}

----------------------------------------------------------------------------
(* JSON text, as a sequence of tokens: punctuation or a quoted string.    *)
(* Quoting makes a string one token whatever characters it contains.      *)

Punct(c) == [t |-> "punct", v |-> c]
Str(s) == [t |-> "str", v |-> s]

RECURSIVE CommaSeparated(_)
CommaSeparated(toks) ==
    IF Len(toks) = 0 THEN <<>>
    ELSE IF Len(toks) = 1 THEN <<toks[1]>>
    ELSE <<toks[1], Punct(",")>> \o CommaSeparated(Tail(toks))

Elements(toks) == SelectSeq(toks, LAMBDA tok : tok.t = "str")

\* JSON.stringify(k) for k: AssetKey = {path: string[]}
JSONstringifyKey(k) ==
    <<Punct("{"), Str("path"), Punct(":"), Punct("[")>>
        \o CommaSeparated([i \in DOMAIN k.path |-> Str(k.path[i])])
        \o <<Punct("]"), Punct("}")>>

\* JSON.parse(json) for the text of an AssetKey
JSONparseKey(json) ==
    LET body == Elements(SubSeq(json, 5, Len(json) - 2))
    IN [path |-> [i \in DOMAIN body |-> body[i].v]]

\* JSON.stringify(strs) for strs: string[]
JSONstringifyStrings(strs) ==
    <<Punct("[")>> \o CommaSeparated([i \in DOMAIN strs |-> Str(strs[i])]) \o <<Punct("]")>>

\* JSON.parse(json) for the text of a string[]
JSONparseStrings(json) ==
    LET body == Elements(SubSeq(json, 2, Len(json) - 1))
    IN [i \in DOMAIN body |-> body[i].v]

----------------------------------------------------------------------------
(* Asset keys and key lists the caller passes *)

AssetKeyA == [path |-> <<"a">>]
AssetKeyB == [path |-> <<"a", "b">>]

AssetKeys == {AssetKeyA, AssetKeyB}

KeyLists == SeqsUpTo(AssetKeys, MaxAssetKeys)

Hints == {"t1", "t2", "t3"}

----------------------------------------------------------------------------
(* The response of PARTITION_HEALTH_QUERY (data.assetNodeOrError) *)

Single == "MaterializationCountSingleDimension"
Grouped == "MaterializationCountGroupedByDimension"

NullCounts ==
    [typename |-> "null", materializationCounts |-> <<>>,
     materializationCountsGrouped |-> <<>>]

SingleCounts(cs) ==
    [typename |-> Single, materializationCounts |-> cs,
     materializationCountsGrouped |-> <<>>]

GroupedCounts(g) ==
    [typename |-> Grouped, materializationCounts |-> <<>>,
     materializationCountsGrouped |-> g]

AssetNode(dims, counts) ==
    [typename |-> "AssetNode", partitionKeysByDimension |-> dims,
     partitionMaterializationCounts |-> counts]

AssetNotFoundError ==
    [typename |-> "AssetNotFoundError", partitionKeysByDimension |-> <<>>,
     partitionMaterializationCounts |-> NullCounts]

----------------------------------------------------------------------------
(* JavaScript values a query can produce *)

Leaf(s) == [state |-> s]              \* a PartitionState
Node(f) == [entries |-> f]            \* an object: own property name -> value
Undefined == [undefined |-> TRUE]
Thrown == [thrown |-> "TypeError"]    \* the call threw instead of returning

IsLeaf(v) == "state" \in DOMAIN v
IsNode(v) == "entries" \in DOMAIN v
IsThrown(v) == "thrown" \in DOMAIN v

\* arr[idx] used as a property name: out of range reads undefined, which
\* Object.fromEntries turns into the property name "undefined"
KeyAt(partitionKeys, idx) ==
    IF idx \in DOMAIN partitionKeys THEN partitionKeys[idx] ELSE "undefined"

\* Object.fromEntries: a later entry with the same name overwrites an earlier one
ObjectFromEntries(es) ==
    [k \in {es[i][1] : i \in DOMAIN es} |->
        es[MaxOf({i \in DOMAIN es : es[i][1] = k})][2]]

\* mutant of StateOfCount: the comparison admits 0
StateOfCountNonNegative(count) == IF count >= 0 THEN SUCCESS ELSE MISSING

\* count > 0 ? PartitionState.SUCCESS : PartitionState.MISSING
StateOfCount(count) == IF count > 0 THEN SUCCESS ELSE MISSING

----------------------------------------------------------------------------
(* loadPartitionHealthData, after the query has returned `data` *)

DimensionsOf(data) ==
    IF data.typename = "AssetNode" THEN data.partitionKeysByDimension ELSE <<>>

CountsOf(data) ==
    IF data.typename = "AssetNode" /\ data.partitionMaterializationCounts # NullCounts
    THEN data.partitionMaterializationCounts
    ELSE SingleCounts(<<>>)

\* reading .partitionKeys of dimensions[0] or dimensions[1] when that is
\* undefined throws a TypeError out of the map callback
BuildThrows(dimensions, counts) ==
    IF counts.typename = Single
    THEN Len(counts.materializationCounts) > 0 /\ Len(dimensions) = 0
    ELSE LET g == counts.materializationCountsGrouped
         IN /\ Len(g) > 0
            /\ \/ Len(dimensions) = 0
               \/ Len(dimensions) < 2 /\ \E idx0 \in DOMAIN g : Len(g[idx0]) > 0

StateByKey(dimensions, counts) ==
    IF counts.typename = Single
    THEN LET mc == counts.materializationCounts
         IN ObjectFromEntries(
                [idx \in DOMAIN mc |->
                    <<KeyAt(dimensions[1].partitionKeys, idx),
                      Leaf(StateOfCount(mc[idx]))>>])
    ELSE LET g == counts.materializationCountsGrouped
         IN ObjectFromEntries(
                [idx0 \in DOMAIN g |->
                    <<KeyAt(dimensions[1].partitionKeys, idx0),
                      Node(ObjectFromEntries(
                          [idx1 \in DOMAIN g[idx0] |->
                              <<KeyAt(dimensions[2].partitionKeys, idx1),
                                Leaf(StateOfCount(g[idx0][idx1]))>>]))>>])

loadPartitionHealthData(loadKey, data) ==
    LET dimensions == DimensionsOf(data)
        counts == CountsOf(data)
    IN IF BuildThrows(dimensions, counts) THEN Thrown
       ELSE [assetKey |-> loadKey,
             dimensions |-> [i \in DOMAIN dimensions |->
                               [name |-> dimensions[i].name,
                                partitionKeys |-> dimensions[i].partitionKeys]],
             stateByKey |-> StateByKey(dimensions, counts)]

\* one step of the reduce in stateForKey: counts[dimensionKey]
Lookup(counts, dimensionKey) ==
    IF IsNode(counts)
    THEN IF dimensionKey \in DOMAIN counts.entries
         THEN counts.entries[dimensionKey] ELSE Undefined
    ELSE IF IsLeaf(counts) THEN Undefined   \* a property of a string
    ELSE Thrown                             \* a property of undefined

RECURSIVE Reduce(_, _)
Reduce(counts, dimensionKeys) ==
    IF dimensionKeys = <<>> THEN counts
    ELSE Reduce(Lookup(counts, Head(dimensionKeys)), Tail(dimensionKeys))

stateForKey(health, dimensionKeys) == Reduce(Node(health.stateByKey), dimensionKeys)

\* the outcome section 4.1 prescribes for merging an empty collection
InvalidArgument == [thrown |-> "InvalidArgument"]

\* mergedStates of MultipartitioningSupport, as section 4.1 describes it:
\* a uniform collection keeps its state, any mixture is SUCCESS_MISSING
mergedStates(states) ==
    IF states = <<>> THEN InvalidArgument
    ELSE IF \A i \in DOMAIN states : states[i] = Leaf(MISSING) THEN Leaf(MISSING)
    ELSE IF \A i \in DOMAIN states : states[i] = Leaf(SUCCESS) THEN Leaf(SUCCESS)
    ELSE Leaf(SUCCESS_MISSING)

\* the own property names of an object, in one fixed order
RECURSIVE ObjectKeys(_)
ObjectKeys(names) ==
    IF names = {} THEN <<>>
    ELSE LET name == CHOOSE n \in names : TRUE
         IN <<name>> \o ObjectKeys(names \ {name})

\* Object.values(v) of an object; of a string, its characters, none of
\* which is a PartitionState
ObjectValues(v) ==
    IF IsNode(v)
    THEN LET names == ObjectKeys(DOMAIN v.entries)
         IN [i \in DOMAIN names |-> v.entries[names[i]]]
    ELSE <<[character |-> v.state]>>

\* mutant of stateForPartialKey: a partial key merges the top-level entries
stateForPartialKeyTopLevel(health, dimensionKeys) ==
    IF Len(dimensionKeys) = Len(health.dimensions)
    THEN stateForKey(health, dimensionKeys)
    ELSE mergedStates(ObjectValues(Node(health.stateByKey)))

\* Object.values(undefined) throws a TypeError
stateForPartialKey(health, dimensionKeys) ==
    IF Len(dimensionKeys) = Len(health.dimensions)
    THEN stateForKey(health, dimensionKeys)
    ELSE LET v == Lookup(Node(health.stateByKey), KeyAt(dimensionKeys, 1))
         IN IF v = Undefined THEN Thrown ELSE mergedStates(ObjectValues(v))

\* the optional argument withinParentDimensions: <<>> when it is not
\* supplied, <<keys>> when it is
NoParents == <<>>

\* Object.entries(stateByKey).filter(...).map(([_, val]) => val[dimensionKey])
StatesWithin(health, dimensionKey, withinParentDimensions) ==
    LET names == ObjectKeys(DOMAIN health.stateByKey)
        kept == SelectSeq(names,
                    LAMBDA key : \/ withinParentDimensions = NoParents
                                 \/ key \in Range(withinParentDimensions[1]))
    IN [i \in DOMAIN kept |-> Lookup(health.stateByKey[kept[i]], dimensionKey)]

\* mutant of stateForSingleDimension: the parents are not filtered
stateForSingleDimensionAllParents(health, dimensionIdx, dimensionKey, withinParentDimensions) ==
    IF dimensionIdx = 0 THEN stateForPartialKey(health, <<dimensionKey>>)
    ELSE IF dimensionIdx = 1
    THEN mergedStates(StatesWithin(health, dimensionKey, NoParents))
    ELSE [thrown |-> "Error"]

\* dimensionIdx counts from 0 as in the source
stateForSingleDimension(health, dimensionIdx, dimensionKey, withinParentDimensions) ==
    IF dimensionIdx = 0 THEN stateForPartialKey(health, <<dimensionKey>>)
    ELSE IF dimensionIdx = 1
    THEN mergedStates(StatesWithin(health, dimensionKey, withinParentDimensions))
    ELSE [thrown |-> "Error"]

----------------------------------------------------------------------------
(* Payloads *)

Letters0 == <<"a", "b", "c", "d">>
Letters1 == <<"x", "y", "z", "w">>

CountValues == {0, 1}

Dimension(name, partitionKeys) == [name |-> name, partitionKeys |-> partitionKeys]

\* partitionKeys lists: the first n letters
PartitionKeyLists(letters) == {SubSeq(letters, 1, n) : n \in 0..MaxKeys}

\* zero to three dimensions; one dimension 0 repeats a key
DimensionLists ==
    LET D0 == {Dimension("dim0", ks) :
                 ks \in PartitionKeyLists(Letters0) \cup {<<"a", "a">>}}
        D1 == {Dimension("dim1", ks) : ks \in PartitionKeyLists(Letters1)}
        D2 == {Dimension("dim2", ks) : ks \in {<<"p">>}}
    IN {<<>>} \cup {<<d0>> : d0 \in D0}
              \cup {<<d0, d1>> : d0 \in D0, d1 \in D1}
              \cup {<<Dimension("dim0", SubSeq(Letters0, 1, n)),
                      Dimension("dim1", SubSeq(Letters1, 1, n)), d2>> :
                        n \in 1..MaxKeys, d2 \in D2}

CountsPayloads ==
    {NullCounts}
        \cup {SingleCounts(cs) : cs \in SeqsUpTo(CountValues, MaxKeys)}
        \cup {GroupedCounts(g) :
                g \in UNION {[1..m0 -> [1..m1 -> CountValues]] :
                                m0 \in 0..MaxKeys, m1 \in 0..MaxKeys}}

Payloads ==
    {AssetNotFoundError}
        \cup {AssetNode(dims, counts) : dims \in DimensionLists, counts \in CountsPayloads}

\* the responses the fetch collaborator gives in the cache specifications
FetchPayloads ==
    {AssetNotFoundError,
     AssetNode(<<Dimension("dim0", <<"a", "b">>)>>, SingleCounts(<<1, 0>>)),
     AssetNode(<<Dimension("dim0", <<"a">>), Dimension("dim1", <<"x", "y">>)>>,
               GroupedCounts(<<(<<0, 1>>)>>)),
     AssetNode(<<>>, SingleCounts(<<1>>))}

----------------------------------------------------------------------------
(* usePartitionHealthData *)

\* assetKeys.map((k) => JSON.stringify(k))
assetKeyJSONs(keys) == [i \in DOMAIN keys |-> JSONstringifyKey(keys[i])]

\* JSON.stringify(assetKeyJSONs)
assetKeyJSON(keys) == JSONstringifyStrings(assetKeyJSONs(keys))

\* assetKeyJSONs.find(...): <<>> for undefined, else <<the first JSON with no index>>
missingKeyJSON(keyJSONs, r) ==
    LET unresolved == {i \in DOMAIN keyJSONs :
                          ~ \E j \in DOMAIN r : JSONstringifyKey(r[j].assetKey) = keyJSONs[i]}
    IN IF unresolved = {} THEN <<>>
       ELSE <<keyJSONs[CHOOSE i \in unresolved : \A j \in unresolved : i <= j]>>

\* mutant of MemoRuns: no dependency list, the callback runs at every render
MemoRunsEveryRender(prevDeps, deps) == TRUE

\* mutant of MemoRuns: the dependency list is [client], the callback runs on mount only
MemoRunsOnMount(prevDeps, deps) == prevDeps = <<>>

\* React.useMemo(..., [client, missingKeyJSON]): the callback runs on mount
\* (prevDeps = <<>>) and whenever a dependency differs from the last render;
\* the Apollo client is the same object throughout
MemoRuns(prevDeps, deps) == prevDeps # deps

\* mutant of SetResult: the new index takes the place of the ones for its key
SetResultReplacing(r, loadedData) ==
    Append(SelectSeq(r, LAMBDA x : x.assetKey # loadedData.assetKey), loadedData)

\* setResult((result) => [...result, loaded])
SetResult(r, loadedData) == Append(r, loadedData)

\* mutant of Returned: the whole state is returned, unfiltered
ReturnedUnfiltered(keys, r) == r

\* result.filter((r) => assetKeyJSONs.includes(JSON.stringify(r.assetKey)))
Returned(keys, r) ==
    LET parsed == JSONparseStrings(assetKeyJSON(keys))
    IN SelectSeq(r, LAMBDA x : \E i \in DOMAIN parsed : parsed[i] = JSONstringifyKey(x.assetKey))

\* one execution of the hook body: the hook's state after rendering with
\* `keys` when the React state is r
usePartitionHealthData(keys, r, prevDeps, inf, st) ==
    LET missing == missingKeyJSON(assetKeyJSONs(keys), r)
        deps == <<missing>>
        run == MemoRuns(prevDeps, deps) /\ missing # <<>>
        loadKey == JSONparseKey(missing[1])
    IN [assetKeys |-> keys,
        result |-> r,
        memoDeps |-> deps,
        inflight |-> IF run THEN [inf EXCEPT ![loadKey] = @ + 1] ELSE inf,
        started |-> IF run THEN [st EXCEPT ![loadKey] = @ + 1] ELSE st,
        returned |-> Returned(keys, r)]

\* the render's outcome becomes the hook's state
Commit(rendered) ==
    \E h \in {rendered} :
        /\ SumOver(h.started, AssetKeys) <= MaxFetches
        /\ assetKeys' = h.assetKeys
        /\ result' = h.result
        /\ memoDeps' = h.memoDeps
        /\ inflight' = h.inflight
        /\ started' = h.started
        /\ returned' = h.returned

Zero == [k \in AssetKeys |-> 0]

NotLoaded == [pending |-> TRUE]
NoQuery == [dimensionKeys |-> <<>>, out |-> NotLoaded]

\* AssetPartitions before its index has resolved: no ranges, every state
\* shown (the useState initial value), no partition in the params
NoParams == [view |-> "partitions", partition |-> <<>>]

ViewMounted ==
    /\ ranges = <<>>
    /\ stateFilters = PartitionState
    /\ params = NoParams

\* the component mounts: first render with some key list
Mount(keys) ==
    LET h == usePartitionHealthData(keys, <<>>, <<>>, Zero, Zero)
    IN /\ assetKeys = h.assetKeys
       /\ result = h.result
       /\ memoDeps = h.memoDeps
       /\ inflight = h.inflight
       /\ started = h.started
       /\ returned = h.returned
       /\ failed = [k \in AssetKeys |-> [query |-> 0, build |-> 0]]
       /\ assetLastMaterializedAt = "t1"

Init ==
    /\ \E keys \in KeyLists : Mount(keys)
    /\ payload = AssetNotFoundError
    /\ loaded = NotLoaded
    /\ query = NoQuery
    /\ ViewMounted

\* the caller renders again, with the same or another key list
Request(keys) ==
    /\ Commit(usePartitionHealthData(keys, result, memoDeps, inflight, started))
    /\ UNCHANGED <<assetLastMaterializedAt, failed, indexVars, viewVars>>

\* the parent passes a new assetLastMaterializedAt; AssetPartitions renders
\* again and calls the hook with the same key list
HintChange(hint) ==
    /\ hint # assetLastMaterializedAt
    /\ assetLastMaterializedAt' = hint
    /\ Commit(usePartitionHealthData(assetKeys, result, memoDeps, inflight, started))
    /\ UNCHANGED <<failed, indexVars, viewVars>>

\* client.query resolves with `data` and the build returns: run() calls
\* setResult, and React renders the hook again with the new state
FetchSucceed(k, data) ==
    /\ inflight[k] > 0
    /\ LET loadedData == loadPartitionHealthData(k, data)
       IN /\ ~ IsThrown(loadedData)
          /\ Commit(usePartitionHealthData(assetKeys, SetResult(result, loadedData), memoDeps,
                                           [inflight EXCEPT ![k] = @ - 1], started))
    /\ UNCHANGED <<assetLastMaterializedAt, failed, indexVars, viewVars>>

\* client.query resolves with `data` and the build throws: run() rejects
BuildFail(k, data) ==
    /\ inflight[k] > 0
    /\ IsThrown(loadPartitionHealthData(k, data))
    /\ inflight' = [inflight EXCEPT ![k] = @ - 1]
    /\ failed' = [failed EXCEPT ![k].build = @ + 1]
    /\ UNCHANGED <<assetKeys, assetLastMaterializedAt, result, memoDeps, started, returned,
                   indexVars, viewVars>>

\* client.query rejects (transport error): run() rejects
FetchFail(k) ==
    /\ inflight[k] > 0
    /\ inflight' = [inflight EXCEPT ![k] = @ - 1]
    /\ failed' = [failed EXCEPT ![k].query = @ + 1]
    /\ UNCHANGED <<assetKeys, assetLastMaterializedAt, result, memoDeps, started, returned,
                   indexVars, viewVars>>

Next ==
    \/ \E keys \in KeyLists : Request(keys)
    \/ \E hint \in Hints : HintChange(hint)
    \/ \E k \in AssetKeys, data \in FetchPayloads : FetchSucceed(k, data)
    \/ \E k \in AssetKeys, data \in FetchPayloads : BuildFail(k, data)
    \/ \E k \in AssetKeys : FetchFail(k)

Spec == Init /\ [][Next]_vars

\* the caller keeps requesting the key list it mounted with
NextFixed ==
    \/ \E hint \in Hints : HintChange(hint)
    \/ \E k \in AssetKeys, data \in FetchPayloads : FetchSucceed(k, data)
    \/ \E k \in AssetKeys, data \in FetchPayloads : BuildFail(k, data)
    \/ \E k \in AssetKeys : FetchFail(k)

SpecFixed == Init /\ [][NextFixed]_vars

\* the same key list, and every started fetch completes successfully
NextLive ==
    \/ \E hint \in Hints : HintChange(hint)
    \/ \E k \in AssetKeys, data \in FetchPayloads : FetchSucceed(k, data)

SpecLive ==
    /\ Init
    /\ [][NextLive]_vars
    /\ WF_vars(\E k \in AssetKeys, data \in FetchPayloads : FetchSucceed(k, data))

----------------------------------------------------------------------------
(* The index as a pure function of the payload *)

IndexKey == AssetKeyA

\* the key tuples stateForKey is asked about: coordinates over the payload
\* letters and over a key no payload contains
QueryKeys ==
    LET K0 == {Letters0[i] : i \in 1..MaxKeys} \cup {"zz"}
        K1 == {Letters1[i] : i \in 1..MaxKeys} \cup {"zz"}
    IN {<<k0>> : k0 \in K0} \cup {<<k0, k1>> : k0 \in K0, k1 \in K1}

InitIndex ==
    /\ Mount(<<>>)
    /\ payload \in Payloads
    /\ loaded = NotLoaded
    /\ query = NoQuery
    /\ ViewMounted

\* the query has returned `payload`: build the index
Load ==
    /\ loaded = NotLoaded
    /\ loaded' = loadPartitionHealthData(IndexKey, payload)
    /\ UNCHANGED <<payload, query, cacheVars, viewVars>>

\* a caller asks the built index for the state of a key tuple
Query(dimensionKeys) ==
    /\ loaded # NotLoaded
    /\ ~ IsThrown(loaded)
    /\ query' = [dimensionKeys |-> dimensionKeys, out |-> stateForKey(loaded, dimensionKeys)]
    /\ UNCHANGED <<payload, loaded, cacheVars, viewVars>>

NextIndex ==
    \/ Load
    \/ \E dimensionKeys \in QueryKeys : Query(dimensionKeys)

SpecIndex == InitIndex /\ [][NextIndex]_vars

----------------------------------------------------------------------------
(* Claims about the cache *)

Requested == Range(assetKeys)

InCache(k) == \E j \in DOMAIN result : result[j].assetKey = k

InReturned(k) == \E j \in DOMAIN returned : returned[j].assetKey = k

Failures(k) == failed[k].query + failed[k].build

\* fetches for k that resolved and whose index was published
Completed(k) == started[k] - inflight[k] - Failures(k)

\* C1: at most one fetch per asset key is outstanding at any time, under any
\* sequence of requests (same or changing key lists) and completions.
C1_OneOutstandingFetchPerKey == \A k \in AssetKeys : inflight[k] <= 1

\* C2: a request returns exactly the cached indexes whose asset key is in the
\* requested list, in cache order: nothing for a key that was not requested,
\* and nothing for a key no fetch of which has completed.
C2_ReturnsRequestedResolved ==
    /\ \A j \in DOMAIN returned : returned[j].assetKey \in Requested
    /\ returned = SelectSeq(result, LAMBDA x : x.assetKey \in Requested)
    /\ \A k \in Requested : Completed(k) = 0 => ~ InReturned(k)

\* witness of C2: a request returned some cached indexes and left out another,
\* cached for a key it did not name
C2_Witness ==
    /\ Len(returned) > 0
    /\ \E j \in DOMAIN result : result[j].assetKey \notin Requested

\* C3: with the key list unchanged and every started fetch completing
\* successfully, eventually a request returns an index for every requested key.
C3_EventuallyAllResolved == <>(\A k \in Requested : InReturned(k))

\* witness of C3: two different keys were requested and both are returned
C3_Witness ==
    /\ Cardinality(Requested) = 2
    /\ \A k \in Requested : InReturned(k)

\* C4: after a request, every requested key that is not in the cache has had
\* a fetch started for it, whatever became of the fetches of the other keys.
C4_EveryUnresolvedKeyFetched ==
    \A k \in Requested : ~ InCache(k) => started[k] > 0

\* C5: when assetLastMaterializedAt changes while an index for the asset is
\* cached, a new fetch for the asset is started.
C5_HintChangeRefetches ==
    [][(/\ assetLastMaterializedAt' # assetLastMaterializedAt
        /\ \E k \in Requested : InCache(k))
       => \E k \in Requested : InCache(k) /\ started'[k] > started[k]]_vars

\* C6: the cache is append-only: an index in the cache stays there, at its
\* place and unchanged, through every request, completion and failure.
C6_AppendOnly ==
    [][/\ Len(result') >= Len(result)
       /\ \A j \in DOMAIN result : result'[j] = result[j]]_vars

\* witness of C6: an index was published while another was already cached
C6_Witness == Len(result) = 2

\* C7: while the caller keeps the same key list, a fetch that fails leaves the
\* cache and the returned value as they were, its key stays unresolved, and no
\* other fetch is started for a key whose fetch failed or is still in flight.
C7_NoRetryAfterFailure ==
    /\ [](\A k \in AssetKeys :
            /\ Failures(k) > 0 =>
                  /\ ~ InCache(k)
                  /\ ~ InReturned(k)
                  /\ started[k] = 1
                  /\ inflight[k] = 0
            /\ inflight[k] > 0 => started[k] = 1 /\ ~ InCache(k))
    /\ [][failed' # failed =>
            result' = result /\ returned' = returned /\ started' = started]_vars

\* witness of C7: the fetch of a requested key failed and the component has
\* rendered again since it mounted
C7_Witness ==
    /\ \E k \in Requested : Failures(k) > 0
    /\ assetLastMaterializedAt # "t1"

----------------------------------------------------------------------------
(* Claims about index construction and stateForKey *)

IsInjective(s) == \A i, j \in DOMAIN s : s[i] = s[j] => i = j

Built == loaded # NotLoaded /\ ~ IsThrown(loaded)

\* the payload of section 6: one or two dimensions of distinct keys, and counts
\* of the matching shape aligned 1:1 with the partition keys
WellFormed(data) ==
    LET dims == data.partitionKeysByDimension
        counts == data.partitionMaterializationCounts
    IN /\ data.typename = "AssetNode"
       /\ Len(dims) \in {1, 2}
       /\ \A i \in DOMAIN dims : IsInjective(dims[i].partitionKeys)
       /\ Len(dims) = 1 =>
            /\ counts.typename = Single
            /\ Len(counts.materializationCounts) = Len(dims[1].partitionKeys)
       /\ Len(dims) = 2 =>
            /\ counts.typename = Grouped
            /\ Len(counts.materializationCountsGrouped) = Len(dims[1].partitionKeys)
            /\ \A i \in DOMAIN counts.materializationCountsGrouped :
                 Len(counts.materializationCountsGrouped[i]) = Len(dims[2].partitionKeys)

OuterCountsLength(data) ==
    IF data.partitionMaterializationCounts.typename = Single
    THEN Len(data.partitionMaterializationCounts.materializationCounts)
    ELSE Len(data.partitionMaterializationCounts.materializationCountsGrouped)

\* C8: construction rejects a payload whose outer counts length differs from
\* the number of dimension-0 partition keys, and a payload of three or more
\* dimensions: no index is built from one.
C8_RejectsMalformedPayload ==
    LET dims == payload.partitionKeysByDimension
    IN (/\ loaded # NotLoaded
        /\ payload.typename = "AssetNode"
        /\ \/ Len(dims) >= 3
           \/ /\ Len(dims) >= 1
              /\ payload.partitionMaterializationCounts # NullCounts
              /\ OuterCountsLength(payload) # Len(dims[1].partitionKeys))
       => IsThrown(loaded)

\* C9: in every index built, every dimension-0 partition key has an entry in
\* stateByKey, and for two dimensions that entry has a state for every
\* dimension-1 key.
C9_EveryKeyHasEntry ==
    (Built /\ Len(loaded.dimensions) >= 1) =>
        \A k0 \in Range(loaded.dimensions[1].partitionKeys) :
            /\ k0 \in DOMAIN loaded.stateByKey
            /\ Len(loaded.dimensions) = 2 =>
                 /\ IsNode(loaded.stateByKey[k0])
                 /\ \A k1 \in Range(loaded.dimensions[2].partitionKeys) :
                      /\ k1 \in DOMAIN loaded.stateByKey[k0].entries
                      /\ IsLeaf(loaded.stateByKey[k0].entries[k1])

\* the state section 3 prescribes for a materialization count
Expected(count, out) ==
    \/ count > 0 /\ out = Leaf(SUCCESS)
    \/ count <= 0 /\ out = Leaf(MISSING)

\* C10: for a well-formed payload and a complete coordinate, stateForKey is
\* SUCCESS when the count at the coordinate's position is greater than 0 and
\* MISSING otherwise; never SUCCESS_MISSING.
C10_StateForKeyFollowsCounts ==
    (Built /\ WellFormed(payload)) =>
        LET dims == payload.partitionKeysByDimension
            counts == payload.partitionMaterializationCounts
            keys0 == dims[1].partitionKeys
            asked == query.dimensionKeys
        IN IF Len(dims) = 1
           THEN /\ \A i \in DOMAIN keys0 :
                     Expected(counts.materializationCounts[i],
                              stateForKey(loaded, <<keys0[i]>>))
                /\ \A i \in DOMAIN keys0 :
                     (query # NoQuery /\ asked = <<keys0[i]>>) =>
                         Expected(counts.materializationCounts[i], query.out)
           ELSE LET keys1 == dims[2].partitionKeys
                IN /\ \A i \in DOMAIN keys0, j \in DOMAIN keys1 :
                        Expected(counts.materializationCountsGrouped[i][j],
                                 stateForKey(loaded, <<keys0[i], keys1[j]>>))
                   /\ \A i \in DOMAIN keys0, j \in DOMAIN keys1 :
                        (query # NoQuery /\ asked = <<keys0[i], keys1[j]>>) =>
                            Expected(counts.materializationCountsGrouped[i][j], query.out)

\* witness of C10: a two-dimension index built from a well-formed payload was
\* asked for a complete coordinate and answered SUCCESS
C10_Witness ==
    /\ Built
    /\ WellFormed(payload)
    /\ Len(payload.partitionKeysByDimension) = 2
    /\ Len(query.dimensionKeys) = 2
    /\ query.out = Leaf(SUCCESS)

----------------------------------------------------------------------------
(* stateForPartialKey and stateForSingleDimension as pure functions of a
   well-formed payload *)

\* the parent lists stateForSingleDimension is given: two dimension-0
\* letters in every order, and one list naming a key no payload contains
ParentLists ==
    {<<>>, <<"a">>, <<"b">>, <<"a", "b">>, <<"b", "a">>, <<"zz", "a">>}

\* the calls of stateForSingleDimension: <<dimensionIdx, dimensionKey,
\* withinParentDimensions>>
SingleDimensionCalls ==
    {<<0, Letters0[i], NoParents>> : i \in 1..MaxKeys}
        \cup {<<1, k, within>> :
                k \in {Letters1[i] : i \in 1..MaxKeys} \cup {"zz"},
                within \in {NoParents} \cup {<<w>> : w \in ParentLists}}
        \cup {<<2, "a", NoParents>>}

InitQuery ==
    /\ Mount(<<>>)
    /\ payload \in {data \in Payloads : WellFormed(data)}
    /\ loaded = NotLoaded
    /\ query = NoQuery
    /\ ViewMounted

QueryPartial(dimensionKeys) ==
    /\ loaded # NotLoaded
    /\ ~ IsThrown(loaded)
    /\ query' = [op |-> "stateForPartialKey",
                 dimensionKeys |-> dimensionKeys,
                 out |-> stateForPartialKey(loaded, dimensionKeys)]
    /\ UNCHANGED <<payload, loaded, cacheVars, viewVars>>

QuerySingle(dimensionIdx, dimensionKey, withinParentDimensions) ==
    /\ loaded # NotLoaded
    /\ ~ IsThrown(loaded)
    /\ query' = [op |-> "stateForSingleDimension",
                 dimensionIdx |-> dimensionIdx,
                 dimensionKey |-> dimensionKey,
                 withinParentDimensions |-> withinParentDimensions,
                 out |-> stateForSingleDimension(loaded, dimensionIdx, dimensionKey,
                                                 withinParentDimensions)]
    /\ UNCHANGED <<payload, loaded, cacheVars, viewVars>>

NextQuery ==
    \/ Load
    \/ \E dimensionKeys \in QueryKeys : QueryPartial(dimensionKeys)
    \/ \E call \in SingleDimensionCalls : QuerySingle(call[1], call[2], call[3])

SpecQuery == InitQuery /\ [][NextQuery]_vars

----------------------------------------------------------------------------
(* Claims about the queries of an index *)

\* the error outcome section 4.2 prescribes for a key the index does not hold
NotFound == [thrown |-> "NotFound"]

\* the asked tuple has one key per dimension and one of them is not a
\* partition key of its dimension
AbsentKeyAsked ==
    /\ query # NoQuery
    /\ Len(query.dimensionKeys) = Len(payload.partitionKeysByDimension)
    /\ \E i \in DOMAIN query.dimensionKeys :
          query.dimensionKeys[i] \notin Range(payload.partitionKeysByDimension[i].partitionKeys)

\* C11: stateForKey asked for a key tuple with a key that is absent from the
\* index, at any dimension position, yields a NotFound error outcome, never a
\* PartitionState and never some other value.
C11_AbsentKeyIsNotFound ==
    (Built /\ WellFormed(payload) /\ AbsentKeyAsked) => query.out = NotFound

\* the merge section 4.1 prescribes, stated on materialization counts
ExpectedMerge(countsMerged, out) ==
    \/ (\A i \in DOMAIN countsMerged : countsMerged[i] <= 0) /\ out = Leaf(MISSING)
    \/ (\A i \in DOMAIN countsMerged : countsMerged[i] > 0) /\ out = Leaf(SUCCESS)
    \/ /\ \E i \in DOMAIN countsMerged : countsMerged[i] <= 0
       /\ \E i \in DOMAIN countsMerged : countsMerged[i] > 0
       /\ out = Leaf(SUCCESS_MISSING)

AskedPartial == query # NoQuery /\ query.op = "stateForPartialKey"

\* C12: stateForPartialKey(keys) equals stateForKey(keys) when keys has one
\* key per dimension; on a two-dimension index and a single dimension-0 key
\* it is the merge of the states of the dimension-1 keys under that key:
\* MISSING if all are MISSING, SUCCESS if all are SUCCESS, SUCCESS_MISSING
\* for any mixture.
C12_PartialKeyMergesNested ==
    Built =>
        LET dims == payload.partitionKeysByDimension
            keys0 == dims[1].partitionKeys
            grouped == payload.partitionMaterializationCounts.materializationCountsGrouped
        IN /\ (AskedPartial /\ Len(query.dimensionKeys) = Len(dims)) =>
                query.out = stateForKey(loaded, query.dimensionKeys)
           /\ (Len(dims) = 2 /\ Len(dims[2].partitionKeys) > 0) =>
                \A i \in DOMAIN keys0 :
                    (AskedPartial /\ query.dimensionKeys = <<keys0[i]>>) =>
                        ExpectedMerge(grouped[i], query.out)

\* witness of C12: a two-dimension index was asked for a single dimension-0
\* key and answered with a mixture
C12_Witness ==
    /\ Built
    /\ Len(payload.partitionKeysByDimension) = 2
    /\ AskedPartial
    /\ Len(query.dimensionKeys) = 1
    /\ query.out = Leaf(SUCCESS_MISSING)

AskedSingle == query # NoQuery /\ query.op = "stateForSingleDimension"

\* the counts at (p, key) over the dimension-0 keys p the parent list admits
CountsWithin(j, withinParentDimensions) ==
    LET keys0 == payload.partitionKeysByDimension[1].partitionKeys
        grouped == payload.partitionMaterializationCounts.materializationCountsGrouped
        parents == SelectSeq([i \in DOMAIN keys0 |-> i],
                       LAMBDA i : \/ withinParentDimensions = NoParents
                                  \/ \E n \in DOMAIN withinParentDimensions[1] :
                                        withinParentDimensions[1][n] = keys0[i])
    IN [n \in DOMAIN parents |-> grouped[parents[n]][j]]

\* C13: on a two-dimension index stateForSingleDimension(1, key, within) is
\* the merge of the states at (p, key) over exactly the dimension-0 keys p
\* in within, or over all dimension-0 keys when within is not supplied;
\* parents outside within have no influence and neither has the order of
\* within.
C13_SingleDimensionMergesWithin ==
    (Built /\ Len(payload.partitionKeysByDimension) = 2) =>
        LET keys1 == payload.partitionKeysByDimension[2].partitionKeys
        IN \A j \in DOMAIN keys1 :
             (/\ AskedSingle
              /\ query.dimensionIdx = 1
              /\ query.dimensionKey = keys1[j]
              /\ CountsWithin(j, query.withinParentDimensions) # <<>>) =>
                  ExpectedMerge(CountsWithin(j, query.withinParentDimensions), query.out)

\* witness of C13: the parents given leave out a parent whose state would
\* have changed the answer
C13_Witness ==
    /\ Built
    /\ Len(payload.partitionKeysByDimension) = 2
    /\ AskedSingle
    /\ query.dimensionIdx = 1
    /\ query.withinParentDimensions # NoParents
    /\ query.out = Leaf(MISSING)
    /\ stateForSingleDimension(loaded, 1, query.dimensionKey, NoParents)
          = Leaf(SUCCESS_MISSING)

----------------------------------------------------------------------------
(* Strings that may hold the separator of the partition parameter *)

\* the strings that hold a "|", each with its pieces
SeparatorStrings ==
    ("a|b" :> <<"a", "|", "b">>) @@ ("b|" :> <<"b", "|">>) @@ ("|" :> <<"|">>)

\* a string as the sequence of its pieces: each "|" is a piece of its own
Pieces(str) ==
    IF str = "" THEN <<>>
    ELSE IF str \in DOMAIN SeparatorStrings THEN SeparatorStrings[str]
    ELSE <<str>>

\* the string made of the pieces
Text(pieces) ==
    IF pieces = <<>> THEN ""
    ELSE IF \E str \in DOMAIN SeparatorStrings : SeparatorStrings[str] = pieces
    THEN CHOOSE str \in DOMAIN SeparatorStrings : SeparatorStrings[str] = pieces
    ELSE pieces[1]

\* Array.prototype.join('|') over strings; undefined joins as the empty
\* string, which is how an absent entry is written here
RECURSIVE Join(_)
Join(strs) ==
    IF strs = <<>> THEN <<>>
    ELSE IF Len(strs) = 1 THEN Pieces(strs[1])
    ELSE Pieces(Head(strs)) \o <<"|">> \o Join(Tail(strs))

\* String.prototype.split('|'): the segments between the separators
RECURSIVE Split(_)
Split(pieces) ==
    IF \A i \in DOMAIN pieces : pieces[i] # "|" THEN <<pieces>>
    ELSE LET at == CHOOSE i \in DOMAIN pieces :
                       /\ pieces[i] = "|"
                       /\ \A j \in 1..(i - 1) : pieces[j] # "|"
         IN <<SubSeq(pieces, 1, at - 1)>> \o Split(SubSeq(pieces, at + 1, Len(pieces)))

\* params.partition.split('|').filter(Boolean)
SplitFilterBoolean(pieces) ==
    LET segments == SelectSeq(Split(pieces), LAMBDA seg : seg # <<>>)
    IN [i \in DOMAIN segments |-> Text(segments[i])]

----------------------------------------------------------------------------
(* AssetPartitions *)

\* the partition keys that parse as a calendar token
TimeTokens == {"2022-01-01", "2022-01-02", "2022-02-01", "2022-02-02"}

\* isTimeseriesPartition of MultipartitioningSupport, as section 4.4
\* describes it; a missing first key reads as "undefined"
isTimeseriesPartition(aPartitionKey) == aPartitionKey \in TimeTokens

\* the order-preserving sub-lists of a key list
SubLists(partitionKeys) ==
    {SelectSeq(partitionKeys, LAMBDA k : k \in chosen) : chosen \in SUBSET Range(partitionKeys)}

\* usePartitionDimensionRanges, as section 4.4 describes it: one range per
\* dimension of the index, seeded to all of its keys or to the ones an
\* allow-list (assetPartitionNames) admits
usePartitionDimensionRanges(health) ==
    LET seeded(i) == {[dimension |-> health.dimensions[i], selected |-> selected] :
                         selected \in SubLists(health.dimensions[i].partitionKeys)}
    IN IF Len(health.dimensions) = 1 THEN {<<r0>> : r0 \in seeded(1)}
       ELSE IF Len(health.dimensions) = 2
       THEN {<<r0, r1>> : r0 \in seeded(1), r1 \in seeded(2)}
       ELSE {<<>>}

\* const [assetHealth] = usePartitionHealthData([assetKey])
assetHealth == loaded

Resolved == assetHealth # NotLoaded /\ ~ IsThrown(assetHealth)

\* ranges.findIndex(...), counting from 0; -1 when no dimension qualifies
timeRangeIdx ==
    LET hits == {i \in DOMAIN ranges :
                   isTimeseriesPartition(KeyAt(ranges[i].dimension.partitionKeys, 1))}
    IN IF hits = {} THEN -1 ELSE (CHOOSE i \in hits : \A j \in hits : i <= j) - 1

\* timeRange && timeRange.selected.length === 0
TimeRangeEmpty == timeRangeIdx # -1 /\ ranges[timeRangeIdx + 1].selected = <<>>

\* mutant of focusedDimensionKeys: the parameter is split whatever the
\* number of dimensions
focusedDimensionKeysAlwaysSplit ==
    IF params.partition # <<>>
    THEN SplitFilterBoolean(params.partition)
    ELSE <<>>

focusedDimensionKeys ==
    IF params.partition # <<>>
    THEN IF Len(ranges) > 1
         THEN SplitFilterBoolean(params.partition)
         ELSE <<Text(params.partition)>>
    ELSE <<>>

Reverse(seq) == [i \in DOMAIN seq |-> seq[Len(seq) + 1 - i]]

dimensionKeysOrdered(range) ==
    IF isTimeseriesPartition(KeyAt(range.selected, 1))
    THEN Reverse(range.selected)
    ELSE range.selected

\* stateFilters.includes(state)
Includes(filters, state) == IsLeaf(state) /\ state.state \in filters

\* mutant of RowState: a row is looked up by its full coordinate only when
\* the focus reaches beyond its dimension
RowStateStrict(idx, dimensionKey) ==
    IF Len(focusedDimensionKeys) > idx
    THEN stateForPartialKey(assetHealth,
                            SubSeq(focusedDimensionKeys, 1, idx) \o <<dimensionKey>>)
    ELSE stateForSingleDimension(assetHealth, idx, dimensionKey,
                                 IF idx \in DOMAIN ranges
                                 THEN <<ranges[idx].selected>> ELSE NoParents)

\* the state of the row for dimensionKey in the list of dimension idx
\* (idx counts from 0; ranges[idx - 1] of the source is ranges[idx] here)
RowState(idx, dimensionKey) ==
    IF Len(focusedDimensionKeys) >= idx
    THEN stateForPartialKey(assetHealth,
                            SubSeq(focusedDimensionKeys, 1, idx) \o <<dimensionKey>>)
    ELSE stateForSingleDimension(assetHealth, idx, dimensionKey,
                                 IF idx \in DOMAIN ranges
                                 THEN <<ranges[idx].selected>> ELSE NoParents)

\* the rows the map of dimensionRowsForRange produces, before the filter
RowsMapped(range, idx) ==
    LET ordered == dimensionKeysOrdered(range)
    IN [i \in DOMAIN ordered |->
          [dimensionKey |-> ordered[i], state |-> RowState(idx, ordered[i])]]

dimensionRowsForRange(range, idx) ==
    IF TimeRangeEmpty THEN <<>>
    ELSE SelectSeq(RowsMapped(range, idx), LAMBDA row : Includes(stateFilters, row.state))

\* a row computation throws out of the render
RenderThrows ==
    /\ ~ TimeRangeEmpty
    /\ \E idx \in DOMAIN ranges :
          \E i \in DOMAIN ranges[idx].selected :
              IsThrown(RowState(idx - 1, ranges[idx].selected[i]))

\* explodePartitionKeysInRanges of MultipartitioningSupport, as section 4.5
\* describes it: the cross-product of the selections, each coordinate with
\* its stateForKey
explodePartitionKeysInRanges(rs, health) ==
    IF Len(rs) = 1
    THEN [i \in DOMAIN rs[1].selected |->
            [dimensionKeys |-> <<rs[1].selected[i]>>,
             state |-> stateForKey(health, <<rs[1].selected[i]>>)]]
    ELSE IF Len(rs) = 2
    THEN LET n1 == Len(rs[2].selected)
             coordinate(n) == <<rs[1].selected[((n - 1) \div n1) + 1],
                                rs[2].selected[((n - 1) % n1) + 1]>>
         IN [n \in 1..(Len(rs[1].selected) * n1) |->
               [dimensionKeys |-> coordinate(n),
                state |-> stateForKey(health, coordinate(n))]]
    ELSE <<>>

allInRanges ==
    IF Resolved THEN explodePartitionKeysInRanges(ranges, assetHealth) ELSE <<>>

\* mutant of allSelected: every coordinate counts
allSelectedUnfiltered == allInRanges

allSelected == SelectSeq(allInRanges, LAMBDA p : Includes(stateFilters, p.state))

\* mutant of nextFocusedDimensionKeys: the entries beyond idx are kept
nextFocusedDimensionKeysKeepingTail(idx, dimensionKey) ==
    LET ordered(ii) == dimensionKeysOrdered(ranges[ii])
        below == [ii \in 1..idx |->
                    IF ii \in DOMAIN focusedDimensionKeys
                    THEN focusedDimensionKeys[ii]
                    ELSE IF ordered(ii) = <<>> THEN "" ELSE ordered(ii)[1]]
    IN IF dimensionKey # ""
       THEN below \o <<dimensionKey>>
                  \o SubSeq(focusedDimensionKeys, idx + 2, Len(focusedDimensionKeys))
       ELSE below

\* the list setFocusedDimensionKey joins: for every dimension below idx the
\* focused key or, without one, the first key of dimensionKeysOrdered
\* (undefined, written "", when nothing is selected there), then dimensionKey
\* unless it is undefined (written "")
nextFocusedDimensionKeys(idx, dimensionKey) ==
    LET ordered(ii) == dimensionKeysOrdered(ranges[ii])
        below == [ii \in 1..idx |->
                    IF ii \in DOMAIN focusedDimensionKeys
                    THEN focusedDimensionKeys[ii]
                    ELSE IF ordered(ii) = <<>> THEN "" ELSE ordered(ii)[1]]
    IN IF dimensionKey # "" THEN below \o <<dimensionKey>> ELSE below

\* the keys AssetPartitionList of dimension idx shows
RowKeys(idx) ==
    LET rows == dimensionRowsForRange(ranges[idx + 1], idx)
    IN {rows[i].dimensionKey : i \in DOMAIN rows}

\* the keys AssetPartitionList of dimension idx is given: its partitions
\* and its focusedDimensionKey
ListKeys(idx) ==
    RowKeys(idx) \cup (IF idx + 1 \in DOMAIN focusedDimensionKeys
                       THEN {focusedDimensionKeys[idx + 1]} ELSE {})

\* params.partition && focusedDimensionKeys.length === ranges.length: the
\* detail of the partition params.partition is shown
DetailShown == params.partition # <<>> /\ Len(focusedDimensionKeys) = Len(ranges)

\* the payloads the view is shown with
Days == <<"2022-01-01", "2022-01-02">>
Weeks == <<"2022-02-01", "2022-02-02">>

ViewDimensionLists ==
    {<<Dimension("dim0", ks)>> :
        ks \in {<<>>, <<"a", "b">>, Days, <<"a|b", "a">>, <<"|", "b|">>,
                <<"2022-01-01", "a", "b">>}}
      \cup {<<Dimension("dim0", ks0), Dimension("dim1", ks1)>> :
              ks0 \in {<<"a", "b">>, Days}, ks1 \in {<<"x", "y">>, Weeks}}
      \cup {<<Dimension("dim0", <<"a", "b">>), Dimension("dim1", <<>>)>>,
            <<Dimension("dim0", <<>>), Dimension("dim1", <<"x", "y">>)>>}

ViewCounts == {<<0, 0>>, <<1, 0>>, <<0, 1>>, <<1, 1>>}

ViewPayloads ==
    {data \in {AssetNode(dims, counts) :
                 dims \in ViewDimensionLists,
                 counts \in {SingleCounts(mc) :
                               mc \in {<<>>, <<1, 0, 1>>, <<0, 1, 0>>} \cup ViewCounts}
                           \cup {GroupedCounts(g) :
                                   g \in {<<>>, <<(<<>>), (<<>>)>>}
                                          \cup {<<g0, g1>> : g0 \in ViewCounts, g1 \in ViewCounts}}} :
        WellFormed(data)}

\* AssetPartitions mounts for an asset whose index is being fetched
InitView ==
    /\ Mount(<<>>)
    /\ payload \in ViewPayloads
    /\ loaded = NotLoaded
    /\ query = NoQuery
    /\ ViewMounted

\* the index arrives and usePartitionDimensionRanges seeds the ranges
LoadView ==
    /\ loaded = NotLoaded
    /\ loaded' = loadPartitionHealthData(IndexKey, payload)
    /\ ranges' \in usePartitionDimensionRanges(loaded')
    /\ UNCHANGED <<payload, query, cacheVars, stateFilters, params>>

\* PartitionStateCheckboxes: onChange={setStateFilters}, the checkbox of
\* one allowed state is ticked or cleared
SetStateFilters(toggled) ==
    /\ ~ (Resolved /\ RenderThrows)
    /\ stateFilters' = IF toggled \in stateFilters
                       THEN stateFilters \ {toggled}
                       ELSE stateFilters \cup {toggled}
    /\ UNCHANGED <<ranges, params, indexVars, cacheVars>>

\* PartitionRangeWizard: setSelected over the time range
SetSelected(selected) ==
    /\ Resolved
    /\ ~ RenderThrows
    /\ timeRangeIdx # -1
    /\ ranges' = [ranges EXCEPT ![timeRangeIdx + 1].selected = selected]
    /\ UNCHANGED <<stateFilters, params, indexVars, cacheVars>>

\* AssetPartitionList of dimension idx: setFocusedDimensionKey, with a key
\* it was given (of one of its rows, or its focused key) or with undefined
\* (written "")
SetFocusedDimensionKey(idx, dimensionKey) ==
    /\ Resolved
    /\ ~ RenderThrows
    /\ idx + 1 \in DOMAIN ranges
    /\ dimensionKey \in ListKeys(idx) \cup {""}
    /\ params' = [params EXCEPT !.partition = Join(nextFocusedDimensionKeys(idx, dimensionKey))]
    /\ UNCHANGED <<ranges, stateFilters, indexVars, cacheVars>>

\* the selections the wizard can make: sub-lists of the time range's keys
TimeRangeSelections ==
    IF timeRangeIdx = -1 THEN {}
    ELSE SubLists(ranges[timeRangeIdx + 1].dimension.partitionKeys)

NextView ==
    \/ LoadView
    \/ \E toggled \in PartitionState : SetStateFilters(toggled)
    \/ \E selected \in TimeRangeSelections : SetSelected(selected)
    \/ \E idx \in {i - 1 : i \in DOMAIN ranges} :
          \E dimensionKey \in ListKeys(idx) \cup {""} :
              SetFocusedDimensionKey(idx, dimensionKey)

SpecView == InitView /\ [][NextView]_vars

----------------------------------------------------------------------------
(* Claims about the view *)

\* the row list of every dimension, by position in ranges
RowLists == [i \in DOMAIN ranges |-> dimensionRowsForRange(ranges[i], i - 1)]

\* C14: callers give the state merger at least one element: in every state
\* of the view, whatever the payload, the selections (an empty one included)
\* and the focus, no merge made for a row by stateForPartialKey or
\* stateForSingleDimension is over an empty collection.
C14_MergerNeverEmpty ==
    (Resolved /\ ~ TimeRangeEmpty) =>
        \A idx \in DOMAIN ranges :
            \A i \in DOMAIN ranges[idx].selected :
                RowState(idx - 1, ranges[idx].selected[i]) # InvalidArgument

\* section 4.4: a dimension is time-ordered when its first key is a calendar
\* token
TimeOrdered(dimension) == isTimeseriesPartition(KeyAt(dimension.partitionKeys, 1))

\* C15: if the selection of any time-ordered dimension is empty, the row
\* list of every dimension is empty, whatever the other selections, the
\* focus and the state filter; also when there are two time-ordered
\* dimensions and only the second one's selection is empty.
C15_EmptyTimeSelectionEmptiesRows ==
    (/\ Resolved
     /\ \E i \in DOMAIN ranges :
           TimeOrdered(ranges[i].dimension) /\ ranges[i].selected = <<>>)
        => \A i \in DOMAIN ranges : RowLists[i] = <<>>

\* the display order section 4.4 prescribes for a range
DisplayOrder(range) ==
    IF TimeOrdered(range.dimension) THEN Reverse(range.selected) ELSE range.selected

\* C16: when the short-circuit does not apply, the row list of a dimension
\* is exactly its selected keys whose computed state is in the state-filter
\* set, in display order (the reverse of the stored selection for a
\* time-ordered dimension, the stored order otherwise): no row outside the
\* filter, no qualifying key missing.
C16_RowsAreFilteredSelection ==
    (Resolved /\ ~ TimeRangeEmpty /\ ~ RenderThrows) =>
        \A idx \in DOMAIN ranges :
            LET shown == SelectSeq(DisplayOrder(ranges[idx]),
                             LAMBDA k : Includes(stateFilters, RowState(idx - 1, k)))
            IN /\ Len(RowLists[idx]) = Len(shown)
               /\ \A i \in DOMAIN shown :
                     /\ RowLists[idx][i].dimensionKey = shown[i]
                     /\ RowLists[idx][i].state = RowState(idx - 1, shown[i])

\* the list of dimension 1 is computed: two dimensions, no short-circuit
Dimension1Listed == Resolved /\ Len(ranges) = 2 /\ ~ TimeRangeEmpty

\* C17: on a two-dimension asset the state of the dimension-1 row for key k
\* is stateForKey([f, k]) when the focus vector has a dimension-0 entry f,
\* and otherwise the merge of the states at (p, k) over only the dimension-0
\* keys p selected in ranges[0].
C17_Dimension1RowState ==
    Dimension1Listed =>
        LET keys1 == ranges[2].dimension.partitionKeys
            rows == RowsMapped(ranges[2], 1)
        IN \A i \in DOMAIN rows :
             \A j \in DOMAIN keys1 :
                keys1[j] = rows[i].dimensionKey =>
                    IF focusedDimensionKeys # <<>>
                    THEN rows[i].state
                            = stateForKey(assetHealth, <<focusedDimensionKeys[1], keys1[j]>>)
                    ELSE ranges[1].selected # <<>> =>
                            ExpectedMerge(CountsWithin(j, <<ranges[1].selected>>),
                                          rows[i].state)

\* witness of C17: with no focus, a dimension-1 row shows the merge over the
\* selected parents only, which differs from the merge over all parents
C17_Witness ==
    /\ Dimension1Listed
    /\ focusedDimensionKeys = <<>>
    /\ Len(ranges[1].selected) = 1
    /\ \E i \in DOMAIN RowLists[2] :
          /\ RowLists[2][i].state = Leaf(SUCCESS)
          /\ stateForSingleDimension(assetHealth, 1, RowLists[2][i].dimensionKey, NoParents)
                = Leaf(SUCCESS_MISSING)

\* the coordinates of the cross-product of the selections, by position,
\* whose stateForKey state is in the state-filter set
SelectedCoordinates ==
    IF Len(ranges) = 1
    THEN {<<i>> : i \in {i \in DOMAIN ranges[1].selected :
                            Includes(stateFilters,
                                     stateForKey(assetHealth, <<ranges[1].selected[i]>>))}}
    ELSE {c \in (DOMAIN ranges[1].selected) \X (DOMAIN ranges[2].selected) :
            Includes(stateFilters,
                     stateForKey(assetHealth,
                                 <<ranges[1].selected[c[1]], ranges[2].selected[c[2]]>>))}

\* C18: the 'Partitions Selected' count is the number of coordinates in the
\* cross-product of every dimension's selected keys whose stateForKey state
\* is in the state-filter set; it is 0 while the index is unresolved; the
\* focus vector and the rows shown have no part in it.
C18_SelectedCount ==
    /\ ~ Resolved => Len(allSelected) = 0
    /\ Resolved => Len(allSelected) = Cardinality(SelectedCoordinates)

\* witness of C18: with a focus set, some but not all coordinates of a
\* two-dimension selection are counted
C18_Witness ==
    /\ Resolved
    /\ Len(ranges) = 2
    /\ focusedDimensionKeys # <<>>
    /\ Len(allSelected) > 0
    /\ Len(allSelected) < Len(ranges[1].selected) * Len(ranges[2].selected)

\* C19: drilling into dimension 1 when dimension 0 was never focused gives a
\* focus vector whose first entry is the first key shown in dimension 0's
\* row list under the current selection and state filter.
C19_DefaultIsFirstShownKey ==
    [][(/\ params' # params
        /\ Len(ranges) = 2
        /\ focusedDimensionKeys = <<>>
        /\ RowLists[1] # <<>>)
          => \A k \in RowKeys(1) :
                SetFocusedDimensionKey(1, k) =>
                    focusedDimensionKeys'[1] = RowLists[1][1].dimensionKey]_vars

\* C20: selecting a key k of the list of dimension idx gives a focus vector of
\* exactly idx + 1 entries whose entry idx is k and whose entries below idx
\* that were focused are unchanged, every earlier entry beyond idx being
\* dropped; of the params only the partition field changes.
C20_SelectingSetsFocus ==
    [][params' # params =>
        \A idx \in {i - 1 : i \in DOMAIN ranges} :
          \A k \in ListKeys(idx) :
             SetFocusedDimensionKey(idx, k) =>
                 /\ Len(focusedDimensionKeys') = idx + 1
                 /\ focusedDimensionKeys'[idx + 1] = k
                 /\ \A ii \in 1..idx :
                       ii \in DOMAIN focusedDimensionKeys =>
                           focusedDimensionKeys'[ii] = focusedDimensionKeys[ii]
                 /\ params'.view = params.view
                 /\ DOMAIN params' = DOMAIN params
                 /\ UNCHANGED <<ranges, stateFilters, loaded>>]_vars

\* witness of C20: a focus of two entries, reached by selecting a key in
\* each list
C20_Witness ==
    /\ Resolved
    /\ Len(ranges) = 2
    /\ Len(focusedDimensionKeys) = 2

\* C21: on a one-dimension asset, serializing the focus produced by
\* selecting key k and deserializing it again gives the one-entry vector
\* [k] for every non-empty key k, keys holding the separator "|" included;
\* the key is never split.
C21_OneDimensionRoundTrip ==
    [][(params' # params /\ Len(ranges) = 1) =>
          \A k \in ListKeys(0) :
             SetFocusedDimensionKey(0, k) =>
                 /\ params'.partition = Join(<<k>>)
                 /\ focusedDimensionKeys' = <<k>>]_vars

\* witness of C21: the focus of a one-dimension asset is a key holding the
\* separator in its middle
C21_Witness ==
    /\ Resolved
    /\ Len(ranges) = 1
    /\ focusedDimensionKeys = <<"a|b">>

\* no partition key of the asset holds the separator
SeparatorFree ==
    \A i \in DOMAIN ranges :
        \A n \in DOMAIN ranges[i].dimension.partitionKeys :
            ranges[i].dimension.partitionKeys[n] \notin DOMAIN SeparatorStrings

----------------------------------------------------------------------------
(* Claims about the cache and the view together *)

\* C23: in every reachable state the cache holds at most one index per
\* asset key, compared by value, so what a request returns never has two
\* indexes for the same asset key, whatever the interleaving of requests
\* with changing key lists and fetch completions.
C23_OneIndexPerKey ==
    /\ \A i, j \in DOMAIN result :
          result[i].assetKey = result[j].assetKey => i = j
    /\ \A i, j \in DOMAIN returned :
          returned[i].assetKey = returned[j].assetKey => i = j

====
